---- MODULE Spec2Model ----
(***************************************************************************)
(* Model of changify/ard.py: the ARD tiling grid, the affine transforms    *)
(* between geographic and row/column space, and the raster window          *)
(* extraction built on them.                                               *)
(*                                                                         *)
(* The functions of ard.py are pure operators.  A behaviour is one caller  *)
(* session: Init draws the caller's first value and the affine it works    *)
(* with, and every action is one call of a function of ard.py on the value *)
(* the caller currently holds.  hist records the values in call order.     *)
(* Python's 0-based tuple index i is the 1-based index i + 1 here.         *)
(***************************************************************************)
EXTENDS Integers, Sequences, FiniteSets, TLC

VARIABLES
    hist,    \* the caller's values: hist[1] the input, hist[i + 1] the result of call i
    aff,     \* the affine the caller holds (passed to calls, replaced by ard_hv's)
    ref,     \* the reference extent last passed to ard_hv
    raster,  \* the raster source last opened: its GeoTransform and pixel size
    reads    \* the windows requested of the raster source with ReadAsArray

vars == <<hist, aff, ref, raster, reads>>

----------------------------------------------------------------------------
(* Bounds of the explored inputs *)

MaxCalls == 3       \* calls per session
MaxRC == 1          \* rows and columns drawn from -MaxRC..MaxRC
MaxCoord == 1       \* small coordinates drawn from -MaxCoord..MaxCoord
MaxSpan == 1        \* row/column extents span 0..MaxSpan pixels
MaxRot == 1         \* rotation terms drawn from 0..MaxRot
MaxIdx == 1         \* tile indices and tile offsets drawn from -MaxIdx..MaxIdx
MaxRasterIdx == 1   \* tile rasters for h, v in 0..MaxRasterIdx
MaxNum == 64        \* numerators of fifteen_offset's inputs, -MaxNum..MaxNum
MaxDenomExp == 2    \* their denominators 2^0..2^MaxDenomExp
SmallRasterSize == 2 \* height and width of the small test raster

----------------------------------------------------------------------------
(* Values: a Python value is its type name and its tuple of fields *)

Val(k, v) == [kind |-> k, val |-> v]

GeoExtent(xmin, ymax, xmax, ymin) == Val("GeoExtent", <<xmin, ymax, xmax, ymin>>)

GeoCoordinate(x, y) == Val("GeoCoordinate", <<x, y>>)

RowColumn(row, column) == Val("RowColumn", <<row, column>>)

RowColumnExtent(st_row, st_col, end_row, end_col) ==
    Val("RowColumnExtent", <<st_row, st_col, end_row, end_col>>)

\* a raised exception: no value is returned
Raise(e) == Val(e, <<>>)

\* the exception of Python's / with a zero divisor, the division-by-zero
\* failure of a degenerate affine
InvalidAffine == "ZeroDivisionError"

IsError(r) == r.kind \in {InvalidAffine, "TypeError"}

ARDCONUS_EXT == GeoExtent(-2565585, 3314805, 2384415, 14805)

ARDAK_EXT == GeoExtent(-851715, 2474325, 1698285, 374325)

ARDHI_EXT == GeoExtent(-444345, 2168895, 305655, 1718895)

ARDCONUS_CHIPAFF == <<ARDCONUS_EXT.val[1], 3000, 0, ARDCONUS_EXT.val[2], 0, -3000>>

ARDCONUS_TILEAFF == <<ARDCONUS_EXT.val[1], 150000, 0, ARDCONUS_EXT.val[2], 0, -150000>>

----------------------------------------------------------------------------
(* Arithmetic of the Python operators used *)

Abs(a) == IF a < 0 THEN -a ELSE a

\* int(a / b): true division, then truncation toward zero (b # 0)
TruncDiv(a, b) ==
    IF (a >= 0) = (b > 0) THEN Abs(a) \div Abs(b) ELSE -(Abs(a) \div Abs(b))

\* n // b for b > 0: floor division
FloorDiv(n, b) == n \div b

RECURSIVE Pow2(_)
Pow2(e) == IF e = 0 THEN 1 ELSE 2 * Pow2(e - 1)

----------------------------------------------------------------------------
(* The functions of ard.py *)

\* mutant of ard_hv: v counted upward from the reference ymax
ard_hv_v_up(h, v, extent) ==
    LET xmin == extent.val[1] + h * 5000 * 30
        xmax == extent.val[1] + h * 5000 * 30 + 5000 * 30
        ymax == extent.val[2] + v * 5000 * 30
        ymin == extent.val[2] + v * 5000 * 30 - 5000 * 30
    IN  <<GeoExtent(xmin, ymax, xmax, ymin), <<xmin, 30, 0, ymax, 0, -30>>>>

ard_hv(h, v, extent) ==
    LET xmin == extent.val[1] + h * 5000 * 30
        xmax == extent.val[1] + h * 5000 * 30 + 5000 * 30
        ymax == extent.val[2] - v * 5000 * 30
        ymin == extent.val[2] - v * 5000 * 30 - 5000 * 30
    IN  <<GeoExtent(xmin, ymax, xmax, ymin), <<xmin, 30, 0, ymax, 0, -30>>>>

\* mutant of fifteen_offset: int(val / 30), truncating toward zero
fifteen_offset_trunc(val) == TruncDiv(val[1], 30 * val[2]) * 30 + 15

\* val is the number val[1] / val[2], val[2] > 0; val // 30 is the floor of
\* val[1] / (30 * val[2])
fifteen_offset(val) == FloorDiv(val[1], 30 * val[2]) * 30 + 15

\* mutant of transform_geo: a zero y pixel size yields row 0 instead of raising
transform_geo_row_unchecked(coord, affine) ==
    LET colnum == coord.val[1] - affine[1] - affine[4] * affine[3]
        rownum == coord.val[2] - affine[4] - affine[1] * affine[5]
    IN  IF affine[2] = 0 THEN Raise(InvalidAffine)
        ELSE IF affine[6] = 0 THEN RowColumn(0, TruncDiv(colnum, affine[2]))
        ELSE RowColumn(TruncDiv(rownum, affine[6]), TruncDiv(colnum, affine[2]))

transform_geo(coord, affine) ==
    LET colnum == coord.val[1] - affine[1] - affine[4] * affine[3]
        rownum == coord.val[2] - affine[4] - affine[1] * affine[5]
    IN  IF affine[2] = 0 THEN Raise(InvalidAffine)
        ELSE IF affine[6] = 0 THEN Raise(InvalidAffine)
        ELSE RowColumn(TruncDiv(rownum, affine[6]), TruncDiv(colnum, affine[2]))

transform_rc(rowcol, affine) ==
    LET x == affine[1] + rowcol.val[2] * affine[2] + rowcol.val[1] * affine[3]
        y == affine[4] + rowcol.val[2] * affine[5] + rowcol.val[1] * affine[6]
    IN  GeoCoordinate(x, y)

\* returns the pair <<UL, LR>>, or the raised TypeError
split_extent(extent) ==
    IF extent.kind = "GeoExtent"
    THEN <<GeoCoordinate(extent.val[1], extent.val[2]),
           GeoCoordinate(extent.val[3], extent.val[4])>>
    ELSE IF extent.kind = "RowColumnExtent"
    THEN <<RowColumn(extent.val[1], extent.val[2]),
           RowColumn(extent.val[3], extent.val[4])>>
    ELSE Raise("TypeError")

\* mutant of transform_ext: a row/column extent's lower-right corner is
\* emitted first
transform_ext_lr_first(extent, affine) ==
    IF extent.kind = "GeoExtent"
    THEN LET c == split_extent(extent)
             ul == transform_geo(c[1], affine)
             lr == transform_geo(c[2], affine)
         IN  IF IsError(ul) THEN ul
             ELSE IF IsError(lr) THEN lr
             ELSE RowColumnExtent(ul.val[1], ul.val[2], lr.val[1], lr.val[2])
    ELSE IF extent.kind = "RowColumnExtent"
    THEN LET c == split_extent(extent)
             ul == transform_rc(c[1], affine)
             lr == transform_rc(c[2], affine)
         IN  GeoExtent(lr.val[1], lr.val[2], ul.val[1], ul.val[2])
    ELSE Raise("TypeError")

transform_ext(extent, affine) ==
    IF extent.kind = "GeoExtent"
    THEN LET c == split_extent(extent)
             ul == transform_geo(c[1], affine)
             lr == transform_geo(c[2], affine)
         IN  IF IsError(ul) THEN ul
             ELSE IF IsError(lr) THEN lr
             ELSE RowColumnExtent(ul.val[1], ul.val[2], lr.val[1], lr.val[2])
    ELSE IF extent.kind = "RowColumnExtent"
    THEN LET c == split_extent(extent)
             ul == transform_rc(c[1], affine)
             lr == transform_rc(c[2], affine)
         IN  GeoExtent(ul.val[1], ul.val[2], lr.val[1], lr.val[2])
    ELSE Raise("TypeError")

\* mutant of determine_hv: the (row, column) returned without the reversal
determine_hv_unreversed(coord, a) ==
    LET rc == transform_geo(coord, a)
    IN  IF IsError(rc) THEN rc ELSE Val("tuple", <<rc.val[1], rc.val[2]>>)

\* the (row, column) of transform_geo reversed: (h, v) = (column, row)
determine_hv(coord, a) ==
    LET rc == transform_geo(coord, a)
    IN  IF IsError(rc) THEN rc ELSE Val("tuple", <<rc.val[2], rc.val[1]>>)

raster_affine(path) == path.affine

\* the outcome of a call that may read the raster: its result and the
\* ReadAsArray requests (xoff, yoff, xsize, ysize) it issued
Outcome(r, w) == [res |-> r, reads |-> w]

extract_rcextent(path, rc_extent) ==
    LET c == split_extent(rc_extent)
        ul == c[1]
        lr == c[2]
    IN  Outcome(Val("ndarray", <<>>),
                <<<<ul.val[2], ul.val[1], lr.val[2] - ul.val[2], lr.val[1] - ul.val[1]>>>>)

extract_geoextent(path, geo_extent) ==
    LET affine == raster_affine(path)
        rc_ext == transform_ext(geo_extent, affine)
    IN  IF IsError(rc_ext) THEN Outcome(rc_ext, <<>>)
        ELSE extract_rcextent(path, rc_ext)

chipul(coord, a) ==
    LET rc == transform_geo(coord, a)
    IN  IF IsError(rc) THEN rc ELSE transform_rc(rc, a)

\* mutant of extract_chip: the chip extent's ymin taken above its ymax
extract_chip_ymin_up(path, coord) ==
    LET chip_ul == chipul(coord, ARDCONUS_CHIPAFF)
        chip_ext == GeoExtent(chip_ul.val[1], chip_ul.val[2],
                              chip_ul.val[1] + 3000, chip_ul.val[2] + 3000)
    IN  extract_geoextent(path, chip_ext)

extract_chip(path, coord) ==
    LET chip_ul == chipul(coord, ARDCONUS_CHIPAFF)
        chip_ext == GeoExtent(chip_ul.val[1], chip_ul.val[2],
                              chip_ul.val[1] + 3000, chip_ul.val[2] - 3000)
    IN  extract_geoextent(path, chip_ext)

----------------------------------------------------------------------------
(* Inputs *)

RefExtents == {ARDCONUS_EXT, ARDAK_EXT, ARDHI_EXT}

PixelSizes == {-3, 0, 2}

TestAffines ==
    { <<o[1], xs, xr, o[2], yr, ys>> :
        o \in {<<6, -4>>}, xs \in PixelSizes, ys \in PixelSizes,
        xr \in 0..MaxRot, yr \in 0..MaxRot }

SmallInputs ==
    { RowColumn(r, c) : r \in -MaxRC..MaxRC, c \in -MaxRC..MaxRC }
    \cup { GeoCoordinate(x, y) : x \in -MaxCoord..MaxCoord, y \in -MaxCoord..MaxCoord }
    \cup { RowColumnExtent(r, c, r + dr, c + dc) :
             r \in {-1, 0}, c \in {-1, 0}, dr \in 0..MaxSpan, dc \in 0..MaxSpan }
    \cup { GeoExtent(x, y, x + w, y - w) : x \in {4, 6}, y \in {-4, -2}, w \in {2, 6} }

\* offsets from the continental origin: on and just before tile and chip
\* boundaries, east and west (south and north) of the origin
Offsets ==
    { t * 150000 + c * 3000 + e : t \in -MaxIdx..MaxIdx, c \in {0, 1}, e \in {-1, 0} }

GridInputs ==
    { GeoCoordinate(ARDCONUS_EXT.val[1] + dx, ARDCONUS_EXT.val[2] - dy) :
        dx \in Offsets, dy \in Offsets }
    \cup { Val("tuple", <<h, v>>) : h \in -MaxIdx..MaxIdx, v \in -MaxIdx..MaxIdx }
    \cup { Val("tuple", <<5, 2>>) }
    \cup { Val("Num", <<n, Pow2(e)>>) : n \in -MaxNum..MaxNum, e \in 0..MaxDenomExp }

\* an ARD tile raster: 5000 x 5000 pixels under the affine ard_hv gives
TileRaster(h, v) ==
    [affine |-> ard_hv(h, v, ARDCONUS_EXT)[2], YSize |-> 5000, XSize |-> 5000]

NoRaster == [affine |-> <<0, 0, 0, 0, 0, 0>>, YSize |-> 0, XSize |-> 0]

\* the rasters a caller holding affine a opens: a small raster under a test
\* affine, the tile rasters under a grid affine
Rasters(a) ==
    IF a \in TestAffines
    THEN { [affine |-> a, YSize |-> SmallRasterSize, XSize |-> SmallRasterSize] }
    ELSE { TileRaster(h, v) : h \in 0..MaxRasterIdx, v \in 0..MaxRasterIdx }

----------------------------------------------------------------------------
(* The caller session *)

Entry(op, r, a) == [op |-> op, kind |-> r.kind, val |-> r.val, aff |-> a]

Cur == hist[Len(hist)]

CurVal == Val(Cur.kind, Cur.val)

CanCall == Len(hist) <= MaxCalls /\ ~IsError(Cur)

Init ==
    /\ \/ \E i \in SmallInputs, a \in TestAffines :
            hist = <<Entry("input", i, a)>> /\ aff = a
       \/ \E i \in GridInputs :
            hist = <<Entry("input", i, ARDCONUS_TILEAFF)>> /\ aff = ARDCONUS_TILEAFF
    /\ ref = ARDCONUS_EXT
    /\ raster = NoRaster
    /\ reads = <<>>

Call_ard_hv ==
    /\ CanCall
    /\ Cur.kind = "tuple"
    /\ \E e \in RefExtents :
         LET r == ard_hv(Cur.val[1], Cur.val[2], e)
         IN  /\ hist' = Append(hist, Entry("ard_hv", r[1], r[2]))
             /\ aff' = r[2]
             /\ ref' = e
    /\ UNCHANGED <<raster, reads>>

Call_fifteen_offset ==
    /\ CanCall
    /\ Cur.kind = "Num"
    /\ hist' = Append(hist, Entry("fifteen_offset", Val("int", <<fifteen_offset(Cur.val)>>), aff))
    /\ UNCHANGED <<aff, ref, raster, reads>>

Call_transform_geo ==
    /\ CanCall
    /\ Cur.kind = "GeoCoordinate"
    /\ hist' = Append(hist, Entry("transform_geo", transform_geo(CurVal, aff), aff))
    /\ UNCHANGED <<aff, ref, raster, reads>>

Call_transform_rc ==
    /\ CanCall
    /\ Cur.kind = "RowColumn"
    /\ hist' = Append(hist, Entry("transform_rc", transform_rc(CurVal, aff), aff))
    /\ UNCHANGED <<aff, ref, raster, reads>>

\* the caller keeps one corner of the returned pair: 1 the UL, 2 the LR
Call_split_extent ==
    /\ CanCall
    /\ Cur.kind \in {"GeoExtent", "RowColumnExtent", "tuple"}
    /\ \E i \in {1, 2} :
         LET c == split_extent(CurVal)
             op == IF i = 1 THEN "split_extent_ul" ELSE "split_extent_lr"
             \* a raised TypeError is no pair
             r == IF Cur.kind = "tuple" THEN c ELSE c[i]
         IN  hist' = Append(hist, Entry(op, r, aff))
    /\ UNCHANGED <<aff, ref, raster, reads>>

Call_transform_ext ==
    /\ CanCall
    /\ Cur.kind \in {"GeoExtent", "RowColumnExtent", "tuple"}
    /\ hist' = Append(hist, Entry("transform_ext", transform_ext(CurVal, aff), aff))
    /\ UNCHANGED <<aff, ref, raster, reads>>

\* aff is the default argument ARDCONUS_TILEAFF or the caller's affine
Call_determine_hv ==
    /\ CanCall
    /\ Cur.kind = "GeoCoordinate"
    /\ \E a \in {ARDCONUS_TILEAFF, aff} :
         hist' = Append(hist, Entry("determine_hv", determine_hv(CurVal, a), a))
    /\ UNCHANGED <<aff, ref, raster, reads>>

Call_chipul ==
    /\ CanCall
    /\ Cur.kind = "GeoCoordinate"
    /\ \E a \in {ARDCONUS_CHIPAFF, aff} :
         hist' = Append(hist, Entry("chipul", chipul(CurVal, a), a))
    /\ UNCHANGED <<aff, ref, raster, reads>>

Call_extract_geoextent ==
    /\ CanCall
    /\ Cur.kind = "GeoExtent"
    /\ \E path \in Rasters(aff) :
         LET o == extract_geoextent(path, CurVal)
         IN  /\ hist' = Append(hist, Entry("extract_geoextent", o.res, raster_affine(path)))
             /\ raster' = path
             /\ reads' = reads \o o.reads
    /\ UNCHANGED <<aff, ref>>

Call_extract_rcextent ==
    /\ CanCall
    /\ Cur.kind = "RowColumnExtent"
    /\ \E path \in Rasters(aff) :
         LET o == extract_rcextent(path, CurVal)
         IN  /\ hist' = Append(hist, Entry("extract_rcextent", o.res, raster_affine(path)))
             /\ raster' = path
             /\ reads' = reads \o o.reads
    /\ UNCHANGED <<aff, ref>>

Call_extract_chip ==
    /\ CanCall
    /\ Cur.kind = "GeoCoordinate"
    /\ \E path \in Rasters(aff) :
         LET o == extract_chip(path, CurVal)
         IN  /\ hist' = Append(hist, Entry("extract_chip", o.res, raster_affine(path)))
             /\ raster' = path
             /\ reads' = reads \o o.reads
    /\ UNCHANGED <<aff, ref>>

Next ==
    \/ Call_ard_hv
    \/ Call_fifteen_offset
    \/ Call_transform_geo
    \/ Call_transform_rc
    \/ Call_split_extent
    \/ Call_transform_ext
    \/ Call_determine_hv
    \/ Call_chipul
    \/ Call_extract_geoextent
    \/ Call_extract_rcextent
    \/ Call_extract_chip

Spec == Init /\ [][Next]_vars

----------------------------------------------------------------------------
(* Properties.  n is the number of values the caller holds; the last call  *)
(* produced hist[n] from hist[n - 1].                                      *)

NonZeroPixels(a) == a[2] # 0 /\ a[6] # 0

ZeroRotation(a) == a[3] = 0 /\ a[5] = 0

\* both corners of the extent e are the origin plus whole pixels of a
Aligned(e, a) ==
    /\ (e[1] - a[1]) % Abs(a[2]) = 0
    /\ (e[3] - a[1]) % Abs(a[2]) = 0
    /\ (e[2] - a[4]) % Abs(a[6]) = 0
    /\ (e[4] - a[4]) % Abs(a[6]) = 0

\* an affine ard_hv returns on the continental reference extent
IsTileAffine(a) ==
    /\ a[2] = 30 /\ a[3] = 0 /\ a[5] = 0 /\ a[6] = -30
    /\ (a[1] - ARDCONUS_EXT.val[1]) % 150000 = 0
    /\ (ARDCONUS_EXT.val[2] - a[4]) % 150000 = 0

\* C1: for every affine with non-zero pixel sizes, rotation terms included,
\* and every (row, col), transform_rc followed by transform_geo with the same
\* affine returns exactly (row, col).
C1_RoundTripRowCol ==
    LET n == Len(hist)
    IN  (/\ n >= 3
         /\ hist[n - 2].kind = "RowColumn"
         /\ hist[n - 1].op = "transform_rc"
         /\ hist[n].op = "transform_geo"
         /\ hist[n].aff = hist[n - 1].aff
         /\ NonZeroPixels(hist[n].aff))
        => (hist[n].kind = "RowColumn" /\ hist[n].val = hist[n - 2].val)

\* C2: for every pair of tile indices (h, v), negative ones included,
\* determine_hv with the continental tile affine, applied to the upper-left
\* corner of the extent ard_hv(h, v) returns on the continental reference
\* extent, returns exactly (h, v), h first.
C2_TileOfOwnCorner ==
    LET n == Len(hist)
    IN  (/\ n >= 4
         /\ hist[n - 3].kind = "tuple"
         /\ hist[n - 2].op = "ard_hv"
         /\ ref = ARDCONUS_EXT
         /\ hist[n - 1].op = "split_extent_ul"
         /\ hist[n].op = "determine_hv"
         /\ hist[n].aff = ARDCONUS_TILEAFF)
        => (hist[n].kind = "tuple" /\ hist[n].val = hist[n - 3].val)

C2_Witness ==
    LET n == Len(hist)
    IN  /\ n >= 4
        /\ hist[n - 3].kind = "tuple"
        /\ hist[n - 3].val = <<-1, 1>>
        /\ hist[n - 2].op = "ard_hv"
        /\ ref = ARDCONUS_EXT
        /\ hist[n - 1].op = "split_extent_ul"
        /\ hist[n].op = "determine_hv"
        /\ hist[n].aff = ARDCONUS_TILEAFF
        /\ hist[n].val = <<-1, 1>>

\* the row/column window of the geographic extent g under the raster's affine
Window(g) == transform_ext(g, raster_affine(raster))

OutOfBounds(w) ==
    w.val[1] < 0 \/ w.val[2] < 0 \/ w.val[3] > raster.YSize \/ w.val[4] > raster.XSize

\* C3: extract_geoextent fails with ExtentOutOfBounds and issues no read
\* whenever the window derived from the requested extent is not fully inside
\* the raster.
C3_OutOfBoundsRejected ==
    LET n == Len(hist)
    IN  (/\ n >= 2
         /\ hist[n].op = "extract_geoextent"
         /\ ~IsError(Window(hist[n - 1]))
         /\ OutOfBounds(Window(hist[n - 1])))
        => (hist[n].kind = "ExtentOutOfBounds" /\ reads = <<>>)

\* C4: for every coordinate (x, y), west of the reference xmin and north of
\* the reference ymax included, determine_hv returns the (h, v) of the tile
\* containing it: the extent E of ard_hv(h, v) on the same reference extent
\* has E.xmin <= x < E.xmax and E.ymin < y <= E.ymax.
C4_TileContainsCoordinate ==
    LET n == Len(hist)
    IN  (/\ n >= 3
         /\ hist[n - 2].kind = "GeoCoordinate"
         /\ hist[n - 1].op = "determine_hv"
         /\ hist[n - 1].aff = ARDCONUS_TILEAFF
         /\ hist[n].op = "ard_hv"
         /\ ref = ARDCONUS_EXT)
        => LET x == hist[n - 2].val[1]
               y == hist[n - 2].val[2]
               E == hist[n].val
           IN  E[1] <= x /\ x < E[3] /\ E[4] < y /\ y <= E[2]

\* C5: for every x, negative and fractional included, fifteen_offset(x) is
\* floor(x / 30) * 30 + 15: an odd multiple of 15 whose predecessor by 15 is
\* the multiple of 30 that is <= x and > x - 30.
C5_FifteenOffsetFloors ==
    LET n == Len(hist)
    IN  (n >= 2 /\ hist[n].op = "fifteen_offset")
        => LET num == hist[n - 1].val[1]
               den == hist[n - 1].val[2]
               r == hist[n].val[1]
           IN  /\ r % 15 = 0
               /\ (r \div 15) % 2 = 1
               /\ (r - 15) % 30 = 0
               /\ (r - 15) * den <= num
               /\ (r - 15) * den > num - 30 * den

C5_Witness ==
    LET n == Len(hist)
    IN  /\ n >= 2
        /\ hist[n].op = "fifteen_offset"
        /\ hist[n - 1].val = <<-1, 4>>
        /\ hist[n].val = <<-15>>

\* C6: for every zero-rotation affine with non-zero pixel sizes and every
\* GeoExtent whose corners are pixel-aligned for it, transform_ext applied
\* twice with that affine returns the original extent, field for field in
\* the order (xmin, ymax, xmax, ymin).
C6_ExtentRoundTrip ==
    LET n == Len(hist)
    IN  (/\ n >= 3
         /\ hist[n - 2].kind = "GeoExtent"
         /\ hist[n - 1].op = "transform_ext"
         /\ hist[n].op = "transform_ext"
         /\ hist[n].aff = hist[n - 1].aff
         /\ ZeroRotation(hist[n].aff)
         /\ NonZeroPixels(hist[n].aff)
         /\ Aligned(hist[n - 2].val, hist[n].aff))
        => (hist[n].kind = "GeoExtent" /\ hist[n].val = hist[n - 2].val)

C6_Witness ==
    LET n == Len(hist)
    IN  /\ n >= 3
        /\ hist[n - 2].kind = "GeoExtent"
        /\ hist[n - 2].val = <<4, -4, 10, -10>>
        /\ hist[n - 1].op = "transform_ext"
        /\ hist[n - 1].val = <<0, -1, 2, 2>>
        /\ hist[n].op = "transform_ext"
        /\ hist[n].aff = <<6, 2, 0, -4, 0, -3>>
        /\ hist[n].val = <<4, -4, 10, -10>>

\* C7: for every coordinate (x, y), west and north of the continental
\* origin included, chipul with the continental chip affine returns the
\* upper-left corner (cx, cy) of the 3000-unit cell of the reference grid
\* containing it: cx <= x < cx + 3000 and cy - 3000 < y <= cy.
C7_ChipContainsCoordinate ==
    LET n == Len(hist)
    IN  (/\ n >= 2
         /\ hist[n].op = "chipul"
         /\ hist[n].aff = ARDCONUS_CHIPAFF
         /\ hist[n - 1].kind = "GeoCoordinate")
        => LET x == hist[n - 1].val[1]
               y == hist[n - 1].val[2]
               cx == hist[n].val[1]
               cy == hist[n].val[2]
           IN  /\ hist[n].kind = "GeoCoordinate"
               /\ (cx - ARDCONUS_EXT.val[1]) % 3000 = 0
               /\ (ARDCONUS_EXT.val[2] - cy) % 3000 = 0
               /\ cx <= x /\ x < cx + 3000
               /\ cy - 3000 < y /\ y <= cy

\* C8: for every (h, v) and every reference extent, ard_hv returns the extent
\* xmin = ref.xmin + h * 150000, xmax = xmin + 150000, ymax = ref.ymax -
\* v * 150000, ymin = ymax - 150000 with the affine (xmin, 30, 0, ymax, 0,
\* -30); (5, 2) on the continental extent gives (-1815585, 3014805, -1665585,
\* 2864805); adjacent tiles share an edge.
C8_TileExtentFormula ==
    LET n == Len(hist)
    IN  (n >= 2 /\ hist[n].op = "ard_hv" /\ hist[n - 1].kind = "tuple")
        => LET h == hist[n - 1].val[1]
               v == hist[n - 1].val[2]
               E == hist[n].val
               east == ard_hv(h + 1, v, ref)[1].val
               south == ard_hv(h, v + 1, ref)[1].val
           IN  /\ hist[n].kind = "GeoExtent"
               /\ E[1] = ref.val[1] + h * 150000
               /\ E[3] = E[1] + 150000
               /\ E[2] = ref.val[2] - v * 150000
               /\ E[4] = E[2] - 150000
               /\ hist[n].aff = <<E[1], 30, 0, E[2], 0, -30>>
               /\ aff = hist[n].aff
               /\ (h = 5 /\ v = 2 /\ ref = ARDCONUS_EXT)
                    => /\ E = <<-1815585, 3014805, -1665585, 2864805>>
                       /\ hist[n].aff = <<-1815585, 30, 0, 3014805, 0, -30>>
               /\ east[1] = E[3] /\ east[2] = E[2] /\ east[4] = E[4]
               /\ south[2] = E[4] /\ south[1] = E[1] /\ south[3] = E[3]

C8_Witness ==
    LET n == Len(hist)
    IN  /\ n >= 2
        /\ hist[n].op = "ard_hv"
        /\ hist[n - 1].val = <<5, 2>>
        /\ ref = ARDCONUS_EXT
        /\ hist[n].val = <<-1815585, 3014805, -1665585, 2864805>>
        /\ aff = <<-1815585, 30, 0, 3014805, 0, -30>>

\* the last call went through transform_geo
CalledTransformGeo ==
    LET n == Len(hist)
    IN  /\ n >= 2
        /\ \/ hist[n].op \in {"transform_geo", "determine_hv", "chipul"}
           \/ hist[n].op = "transform_ext" /\ hist[n - 1].kind = "GeoExtent"

\* C9: transform_geo called with an affine whose x or y pixel size is zero
\* ends in the InvalidAffine error and returns no RowColumn; the same error
\* reaches the caller through transform_ext, determine_hv and chipul.
C9_ZeroPixelSizeRaises ==
    LET n == Len(hist)
    IN  (CalledTransformGeo /\ ~NonZeroPixels(hist[n].aff))
        => (hist[n].kind = InvalidAffine /\ hist[n].val = <<>>)

C9_Witness ==
    LET n == Len(hist)
    IN  /\ n >= 2
        /\ hist[n].op = "transform_ext"
        /\ hist[n - 1].kind = "GeoExtent"
        /\ hist[n].aff[2] # 0
        /\ hist[n].aff[6] = 0
        /\ hist[n].kind = InvalidAffine

\* C10: for every coordinate and every raster whose affine ard_hv produced on
\* the continental reference extent, the window extract_chip requests has
\* exactly 100 columns and 100 rows and starts at the row/column of
\* chipul(coord).
C10_ChipWindowIs100x100 ==
    LET n == Len(hist)
    IN  (/\ n >= 2
         /\ hist[n].op = "extract_chip"
         /\ IsTileAffine(raster_affine(raster)))
        => LET ul == chipul(Val(hist[n - 1].kind, hist[n - 1].val), ARDCONUS_CHIPAFF)
               st == transform_geo(ul, raster_affine(raster))
           IN  /\ hist[n].kind = "ndarray"
               /\ Len(reads) = 1
               /\ reads[1][3] = 100
               /\ reads[1][4] = 100
               /\ reads[1][1] = st.val[2]
               /\ reads[1][2] = st.val[1]

C10_Witness ==
    LET n == Len(hist)
    IN  /\ n >= 2
        /\ hist[n].op = "extract_chip"
        /\ raster = TileRaster(1, 0)
        /\ hist[n - 1].val = <<ARDCONUS_EXT.val[1] + 150000 + 3000 - 1, ARDCONUS_EXT.val[2] - 3000>>
        /\ reads = << <<0, 100, 100, 100>> >>

====
